---- MODULE Spec2Model ----
(***************************************************************************)
(* Design-variable optimization engine of FisInMa                          *)
(* (src/FisInMa/optimization/scipy_global_optim.py): the flat-vector       *)
(* codec, the bounds/constraints builder, the discretization penalty and   *)
(* the objective adapter.                                                  *)
(*                                                                         *)
(* Design values, grid points and bounds are integers (a unit of the value *)
(* axis).  Real-valued results (penalties, objective values) are held as   *)
(* enclosures [lo, hi] in units of 1/Prec: an exactly representable result *)
(* has lo = hi, an irrational one (the N-th root of the product-difference *)
(* penalty) is enclosed by its floor and ceiling.  IEEE nan and +-inf are  *)
(* kept as separate values.                                                *)
(***************************************************************************)
EXTENDS Integers, Sequences, FiniteSets, TLC

\* ---------------------------------------------------------------- bounds
MaxN == 2
MaxGrid == 2
MaxLen == 4
MaxCount == 3
MaxCols == 5
MaxEvals == 1
Prec == 100

\* The codec only moves and orders values: two distinct ones tell every
\* placement and every order apart.
Vals == {0, 1}
\* the value axis of the penalty: grid points and sampled values
GridVals == 0..MaxGrid

\* ------------------------------------------------------- python helpers
None == <<>>
Some(x) == <<x>>
IsNone(o) == o = <<>>
Get(o) == o[1]

Min2(a, b) == IF a <= b THEN a ELSE b
Max2(a, b) == IF a >= b THEN a ELSE b
Abs(a) == IF a < 0 THEN -a ELSE a

RECURSIVE SeqMin(_)
SeqMin(s) == IF Len(s) = 1 THEN s[1] ELSE Min2(s[1], SeqMin(Tail(s)))

RECURSIVE SeqMax(_)
SeqMax(s) == IF Len(s) = 1 THEN s[1] ELSE Max2(s[1], SeqMax(Tail(s)))

RECURSIVE IntProd(_)
IntProd(s) == IF s = <<>> THEN 1 ELSE s[1] * IntProd(Tail(s))

RECURSIVE IntSum(_)
IntSum(s) == IF s = <<>> THEN 0 ELSE s[1] + IntSum(Tail(s))

RECURSIVE Pow(_, _)
Pow(b, e) == IF e = 0 THEN 1 ELSE b * Pow(b, e - 1)

RECURSIVE Concat(_)
Concat(ss) == IF ss = <<>> THEN <<>> ELSE ss[1] \o Concat(Tail(ss))

Repeat(x, n) == [i \in 1..Max2(0, n) |-> x]

\* X[a:b] of a python sequence, 0-based, 0 <= a: the slice is cut at the end
\* of X and never raises.
Slice(X, a, b) == SubSeq(X, Min2(a, Len(X)) + 1, Min2(Max2(a, b), Len(X)))

RECURSIVE Insert(_, _)
Insert(v, s) ==
    IF s = <<>> THEN <<v>>
    ELSE IF v <= s[1] THEN <<v>> \o s
    ELSE <<s[1]>> \o Insert(v, Tail(s))

RECURSIVE Sort(_)
Sort(s) == IF s = <<>> THEN <<>> ELSE Insert(s[1], Sort(Tail(s)))

\* ----------------------------------------------------- numpy nd-arrays
\* An array is its shape and its row-major data.
Array(shape, data) == [shape |-> shape, data |-> data]
Size(a) == Len(a.data)
LastAxis(a) == a.shape[Len(a.shape)]

\* the k-th (0-based) sub-array along the last axis of a flat buffer
Row(data, n, k) == SubSeq(data, k * n + 1, (k + 1) * n)

\* np.sort(a, axis=-1)
SortLastAxis(a) ==
    LET n == LastAxis(a)
        rows == IF n = 0 THEN 0 ELSE Size(a) \div n
    IN  Array(a.shape, Concat([k \in 1..rows |-> Sort(Row(a.data, n, k - 1))]))

\* row-major offset of the sub-array a[index], index one entry per leading axis
RECURSIVE RowIndex(_, _)
RowIndex(shape, index) ==
    IF index = <<>> THEN 0
    ELSE index[Len(index)] + shape[Len(index)] * RowIndex(shape, SubSeq(index, 1, Len(index) - 1))

\* a[index] for a tuple index over the leading axes
AtIndex(a, index) == Row(a.data, LastAxis(a), RowIndex(a.shape, index))

\* itertools.product(*[range(l) for l in lens]) in its (lexicographic) order
RECURSIVE IndexProduct(_)
IndexProduct(lens) ==
    IF lens = <<>> THEN << <<>> >>
    ELSE LET rest == IndexProduct(Tail(lens))
         IN  Concat([i \in 1..lens[1] |-> [j \in 1..Len(rest) |-> <<i - 1>> \o rest[j]]])

\* ------------------------------------------------ floating-point values
Fin(lo, hi) == [k |-> "fin", lo |-> lo, hi |-> hi]
NaN == [k |-> "nan", lo |-> 0, hi |-> 0]
Inf(s) == [k |-> "inf", lo |-> s, hi |-> s]
Exact(i) == Fin(i * Prec, i * Prec)
One == Exact(1)
Zero == Exact(0)

FloorDiv(a, b) == a \div b
CeilDiv(a, b) == -((-a) \div b)

\* sign of a value; an enclosure [0,0] is the exact zero and no other is
Sign(x) == IF x.lo = 0 /\ x.hi = 0 THEN 0 ELSE IF x.hi > 0 THEN 1 ELSE -1

Neg(x) ==
    IF x.k = "nan" THEN NaN
    ELSE IF x.k = "inf" THEN Inf(-x.lo)
    ELSE Fin(-x.hi, -x.lo)

Mul(x, y) ==
    IF x.k = "nan" \/ y.k = "nan" THEN NaN
    ELSE IF x.k = "inf" \/ y.k = "inf"
         THEN IF Sign(x) = 0 \/ Sign(y) = 0 THEN NaN ELSE Inf(Sign(x) * Sign(y))
    ELSE LET c == <<x.lo * y.lo, x.lo * y.hi, x.hi * y.lo, x.hi * y.hi>>
         IN  Fin(FloorDiv(SeqMin(c), Prec), CeilDiv(SeqMax(c), Prec))

\* 1 - x
OneMinus(x) ==
    IF x.k = "nan" THEN NaN
    ELSE IF x.k = "inf" THEN Inf(-x.lo)
    ELSE Fin(Prec - x.hi, Prec - x.lo)

\* x / r for x >= 0 and an integer r >= 0 (numpy: 0/0 is nan, x/0 is inf)
DivInt(x, r) ==
    IF r = 0 THEN (IF Sign(x) = 0 THEN NaN ELSE Inf(1))
    ELSE Fin(FloorDiv(x.lo, r), CeilDiv(x.hi, r))

\* the greatest r in lo..hi with r^n <= t, lo being one
RECURSIVE FloorRoot(_, _, _, _)
FloorRoot(t, n, lo, hi) ==
    IF lo >= hi THEN lo
    ELSE LET mid == (lo + hi + 1) \div 2
         IN  IF Pow(mid, n) <= t THEN FloorRoot(t, n, mid, hi) ELSE FloorRoot(t, n, lo, mid - 1)

\* p ** (1.0 / n) for an integer 0 <= p <= MaxGrid^n
Root(p, n) ==
    LET t == Pow(Prec, n) * p
        r == FloorRoot(t, n, 0, Prec * MaxGrid)
    IN  Fin(r, IF Pow(r, n) = t THEN r ELSE r + 1)

\* np.product over a python list of values (1.0 for the empty list)
RECURSIVE NpProduct(_)
NpProduct(s) ==
    IF s = <<>> THEN One ELSE Mul(NpProduct(SubSeq(s, 1, Len(s) - 1)), s[Len(s)])

\* ------------------------------------------------------------ the design
\* VariableDefinition: count n, bounds lb/ub, optional min_distance and
\* optional discrete grid (None, or Some(value)).
VariableDefinition(n, lb, ub, min_distance, discrete) ==
    [n |-> n, lb |-> lb, ub |-> ub, min_distance |-> min_distance, discrete |-> discrete]

\* fsmp.inputs_mut: the values of the optimizable inputs, None for a fixed one
inputs_mut(f) ==
    [i \in 1..Len(f.inputs) |-> IF IsNone(f.inputs_def[i]) THEN None ELSE Some(f.inputs[i])]

\* ------------------------------------------------- discretization penalty
PenaltyNames == {"default", "product_difference", "individual_zigzag",
                 "individual_cos", "individual_gauss"}

\* |1 - 2 v / dv|
penalty_structure_zigzag(v, dv) ==
    Fin(FloorDiv(Prec * Abs(dv - 2 * v), dv), CeilDiv(Prec * Abs(dv - 2 * v), dv))

\* 0.5 (1 + cos(2 pi v / dv)): 1 at both ends, 0 midway, inside (0,1) elsewhere
penalty_structure_cos(v, dv) ==
    IF v = 0 \/ v = dv THEN One
    ELSE IF 2 * v = dv THEN Zero
    ELSE Fin(0, Prec)

\* exp(-v^2 / 2 s^2) + exp(-(v - dv)^2 / 2 s^2), s = dv / 10: the second term
\* (e^-50) is below the rounding of 1.0 at both ends; inside (0,1) elsewhere
penalty_structure_gauss(v, dv) ==
    IF v = 0 \/ v = dv THEN One ELSE Fin(0, Prec)

pen_structure(name, v, dv) ==
    IF name = "individual_zigzag" THEN penalty_structure_zigzag(v, dv)
    ELSE IF name = "individual_cos" THEN penalty_structure_cos(v, dv)
    ELSE penalty_structure_gauss(v, dv)

\* the factors one value v appends to prod: one per grid interval holding it
RECURSIVE IntervalFactors(_, _, _, _)
IntervalFactors(v, vals_discr, name, i) ==
    IF i >= Len(vals_discr) THEN <<>>
    ELSE (IF vals_discr[i] <= v /\ v <= vals_discr[i + 1]
          THEN <<pen_structure(name, v - vals_discr[i], vals_discr[i + 1] - vals_discr[i])>>
          ELSE <<>>)
         \o IntervalFactors(v, vals_discr, name, i + 1)

\* pen = np.product(prod); return pen, prod
Penalized(prod) == [pen |-> NpProduct(prod), prod |-> prod]

discrete_penalty_individual_template(vals, vals_discr, name) ==
    Penalized(Concat([j \in 1..Len(vals) |-> IntervalFactors(vals[j], vals_discr, name, 1)]))

\* 1 - |prod_k (grid_k - v)| ** (1/N) / (max(grid) - min(grid))
DefaultFactor(v, vals_discr) ==
    LET p == Abs(IntProd([k \in 1..Len(vals_discr) |-> vals_discr[k] - v]))
    IN  OneMinus(DivInt(Root(p, Len(vals_discr)), SeqMax(vals_discr) - SeqMin(vals_discr)))

discrete_penalty_calculator_default(vals, vals_discr) ==
    Penalized([j \in 1..Len(vals) |-> DefaultFactor(vals[j], vals_discr)])

DISCRETE_PENALTY_FUNCTIONS(name, vals, vals_discr) ==
    IF name \in {"default", "product_difference"}
    THEN discrete_penalty_calculator_default(vals, vals_discr)
    ELSE discrete_penalty_individual_template(vals, vals_discr, name)

\* whether a group's definition is a VariableDefinition carrying a grid
HasDiscrete(def) == ~IsNone(def) /\ ~IsNone(Get(def).discrete)

\* p, p_full = penalizer(values, discr); pen *= p; pen_full.append(p_full)
Accumulate(acc, r) == [pen |-> Mul(acc.pen, r.pen), full |-> Append(acc.full, r.prod)]

\* the loop over the input channels: running product and collected details
RECURSIVE PenInputs(_, _, _)
PenInputs(f, name, i) ==
    IF i = 0 THEN [pen |-> One, full |-> <<>>]
    ELSE IF HasDiscrete(f.inputs_def[i])
         THEN Accumulate(PenInputs(f, name, i - 1),
                         DISCRETE_PENALTY_FUNCTIONS(name, f.inputs[i],
                                                    Get(Get(f.inputs_def[i]).discrete)))
         ELSE PenInputs(f, name, i - 1)

\* the loop over itertools.product of the input index ranges, the running
\* product overwritten (=) where the code multiplies (*=)
RECURSIVE PenTimesLoop_Overwritten(_, _, _, _)
PenTimesLoop_Overwritten(f, name, idx, i) ==
    IF i = 0 THEN [pen |-> One, full |-> <<>>]
    ELSE LET acc == PenTimesLoop_Overwritten(f, name, idx, i - 1)
             r == DISCRETE_PENALTY_FUNCTIONS(name, AtIndex(f.times, idx[i]),
                                             Get(Get(f.times_def).discrete))
         IN  [pen |-> r.pen, full |-> Append(acc.full, r.prod)]

\* the loop over itertools.product of the input index ranges
RECURSIVE PenTimesLoop(_, _, _, _)
PenTimesLoop(f, name, idx, i) ==
    IF i = 0 THEN [pen |-> One, full |-> <<>>]
    ELSE Accumulate(PenTimesLoop(f, name, idx, i - 1),
                    DISCRETE_PENALTY_FUNCTIONS(name, AtIndex(f.times, idx[i]),
                                               Get(Get(f.times_def).discrete)))

\* the penalty of the initial times: value and details
PenT0(f, name) ==
    IF HasDiscrete(f.ode_t0_def)
    THEN DISCRETE_PENALTY_FUNCTIONS(name, f.ode_t0, Get(Get(f.ode_t0_def).discrete))
    ELSE [pen |-> One, prod |-> <<>>]

\* pen_times, pen_times_full = penalizer(values, discr)
Assigned(r) == [pen |-> r.pen, full |-> r.prod]

\* the loop run over all of idx
PenTimesOver(f, name, idx) == PenTimesLoop(f, name, idx, Len(idx))

\* the penalty of the sampling times: value and details
PenTimes(f, name) ==
    IF HasDiscrete(f.times_def)
    THEN IF f.identical_times
         THEN Assigned(DISCRETE_PENALTY_FUNCTIONS(name, f.times.data,
                                                  Get(Get(f.times_def).discrete)))
         ELSE PenTimesOver(f, name,
                           IndexProduct([i \in 1..Len(f.inputs) |-> Len(f.inputs[i])]))
    ELSE [pen |-> One, full |-> <<>>]

\* pen = pen_ode_t0 * pen_inputs * pen_times and the dataclass holding it
PenaltyInformation(t0, inp, tim) ==
    [penalty |-> Mul(Mul(t0.pen, inp.pen), tim.pen),
     penalty_ode_t0 |-> t0.pen,
     penalty_inputs |-> inp.pen,
     penalty_times |-> tim.pen,
     penalty_summary |-> [ode_t0 |-> t0.prod, inputs |-> inp.full, times |-> tim.full]]

_discrete_penalizer(f, name) ==
    PenaltyInformation(PenT0(f, name), PenInputs(f, name, Len(f.inputs_def)), PenTimes(f, name))

\* ------------------------------------------------- constraints and bounds
Matrix(rows, cols, at) == [rows |-> rows, cols |-> cols, at |-> at]

\* np.eye(0)
Eye0 == Matrix(0, 0, [ij \in {} |-> 0])

_create_comparison_matrix(n) ==
    LET r == Max2(0, n - 1)
        c == Max2(0, n)
    IN  Matrix(r, c, [ij \in (1..r) \X (1..c) |->
                        IF ij[2] = ij[1] THEN 1 ELSE IF ij[2] = ij[1] + 1 THEN -1 ELSE 0])

\* np.block([[B, zeros], [zeros, A]])
Block(B, A) ==
    Matrix(B.rows + A.rows, B.cols + A.cols,
           [ij \in (1..(B.rows + A.rows)) \X (1..(B.cols + A.cols)) |->
               IF ij[1] <= B.rows /\ ij[2] <= B.cols THEN B.at[ij]
               ELSE IF ij[1] > B.rows /\ ij[2] > B.cols
                    THEN A.at[<<ij[1] - B.rows, ij[2] - B.cols>>]
                    ELSE 0])

NoConstraints == [lb |-> <<>>, ub |-> <<>>, lc |-> <<>>, uc |-> <<>>, B |-> Eye0]

\* the initial-time branch
BoundsT0(f, s) ==
    IF IsNone(f.ode_t0_def) THEN s
    ELSE LET d == Get(f.ode_t0_def)
         IN  [lb |-> s.lb \o Repeat(d.lb, d.n),
              ub |-> s.ub \o Repeat(d.ub, d.n),
              lc |-> s.lc \o Repeat(Inf(-1), d.n - 1),
              uc |-> s.uc \o Repeat(IF ~IsNone(d.min_distance) THEN Exact(Get(d.min_distance))
                                    ELSE Inf(1), d.n - 1),
              B  |-> Block(s.B, _create_comparison_matrix(d.n))]

\* the initial-state branch
BoundsX0(f, s) ==
    IF IsNone(f.ode_x0_def) THEN s
    ELSE LET d == Get(f.ode_x0_def)
         IN  [lb |-> Append(s.lb, d.lb),
              ub |-> Append(s.ub, d.ub),
              lc |-> s.lc,
              uc |-> s.uc,
              B  |-> Block(s.B, Eye0)]

\* the sampling-time branch with the constraint bounds of the initial-time
\* branch: (-inf, min_distance) or (-inf, +inf)
BoundsTimes_AsInitialTime(f, s) ==
    IF IsNone(f.times_def) THEN s
    ELSE LET d == Get(f.times_def)
             n_times == IntProd(f.times.shape)
         IN  [lb |-> s.lb \o Repeat(d.lb, n_times),
              ub |-> s.ub \o Repeat(d.ub, n_times),
              lc |-> s.lc \o Repeat(Inf(-1), n_times - 1),
              uc |-> s.uc \o Repeat(IF ~IsNone(d.min_distance) THEN Exact(Get(d.min_distance))
                                    ELSE Inf(1), n_times - 1),
              B  |-> Block(s.B, _create_comparison_matrix(n_times))]

\* the sampling-time branch
BoundsTimes(f, s) ==
    IF IsNone(f.times_def) THEN s
    ELSE LET d == Get(f.times_def)
             n_times == IntProd(f.times.shape)
         IN  [lb |-> s.lb \o Repeat(d.lb, n_times),
              ub |-> s.ub \o Repeat(d.ub, n_times),
              lc |-> s.lc \o Repeat(Inf(-1), n_times - 1),
              uc |-> s.uc \o Repeat(IF ~IsNone(d.min_distance) THEN Exact(-Get(d.min_distance))
                                    ELSE Exact(0), n_times - 1),
              B  |-> Block(s.B, _create_comparison_matrix(n_times))]

\* the loop over the input definitions
RECURSIVE BoundsInputs(_, _, _)
BoundsInputs(f, s, i) ==
    IF i = 0 THEN s
    ELSE LET t == BoundsInputs(f, s, i - 1)
         IN  IF IsNone(f.inputs_def[i]) THEN t
             ELSE LET d == Get(f.inputs_def[i])
                  IN  [lb |-> t.lb \o Repeat(d.lb, d.n),
                       ub |-> t.ub \o Repeat(d.ub, d.n),
                       lc |-> t.lc \o Repeat(Inf(-1), d.n - 1),
                       uc |-> t.uc \o Repeat(IF ~IsNone(d.min_distance)
                                             THEN Exact(-Get(d.min_distance))
                                             ELSE Exact(0), d.n - 1),
                       B  |-> Block(t.B, _create_comparison_matrix(d.n))]

_scipy_calculate_bounds_constraints(f) ==
    LET s == BoundsInputs(f, BoundsTimes(f, BoundsX0(f, BoundsT0(f, NoConstraints))),
                          Len(f.inputs_def))
    IN  [bounds |-> [i \in 1..Min2(Len(s.lb), Len(s.ub)) |-> <<s.lb[i], s.ub[i]>>],
         B |-> s.B, lc |-> s.lc, uc |-> s.uc]

\* ------------------------------------------------------- the flat vector
__initial_guess(f) ==
    (IF ~IsNone(f.ode_x0_def) THEN f.ode_x0 ELSE <<>>)
    \o (IF ~IsNone(f.ode_t0_def) THEN f.ode_t0 ELSE <<>>)
    \o (IF ~IsNone(f.times_def) THEN f.times.data ELSE <<>>)
    \o Concat([i \in 1..Len(f.inputs) |->
                 IF ~IsNone(inputs_mut(f)[i]) THEN Get(inputs_mut(f)[i]) ELSE <<>>])

\* One assignment of the unpacking: the group (and the channel i of an
\* input), the X[from:to] it was given
\* (what the slice holds after python cut it at the end of X) and the running
\* offset `total` after the group.
Taken(group, i, X, from, to, total) ==
    [group |-> group, i |-> i, from |-> Min2(from, Len(X)), to |-> Min2(Max2(from, to), Len(X)),
     total |-> total]

UnpackT0(X, u) ==
    IF IsNone(u.f.ode_t0_def) THEN u
    ELSE LET n == Get(u.f.ode_t0_def).n
         IN  [u EXCEPT !.f.ode_t0 = Slice(X, 0, n),
                       !.total = u.total + n,
                       !.slices = Append(u.slices, Taken("ode_t0", 0, X, 0, n, u.total + n))]

UnpackX0(X, u) ==
    IF IsNone(u.f.ode_x0_def) THEN u
    ELSE LET n == Get(u.f.ode_x0_def).n
             to == u.total + n * Len(u.f.ode_x0)
         IN  [u EXCEPT !.f.ode_x0 = Slice(X, u.total, to),
                       !.total = u.total + n,
                       !.slices = Append(u.slices, Taken("ode_x0", 0, X, u.total, to, u.total + n))]

\* the sampling-time branch without np.sort
UnpackTimes_Unsorted(X, u) ==
    IF IsNone(u.f.times_def) THEN u
    ELSE LET size == Size(u.f.times)
             sl == Slice(X, u.total, u.total + size)
         IN  IF Len(sl) # IntProd(u.f.times.shape) THEN [u EXCEPT !.raised = TRUE]
             ELSE [u EXCEPT !.f.times = Array(u.f.times.shape, sl),
                            !.total = u.total + size,
                            !.slices = Append(u.slices, Taken("times", 0, X, u.total,
                                                              u.total + size, u.total + size))]

\* reshape raises ValueError when the slice does not fill the shape
UnpackTimes(X, u) ==
    IF IsNone(u.f.times_def) THEN u
    ELSE LET size == Size(u.f.times)
             sl == Slice(X, u.total, u.total + size)
         IN  IF Len(sl) # IntProd(u.f.times.shape) THEN [u EXCEPT !.raised = TRUE]
             ELSE [u EXCEPT !.f.times = SortLastAxis(Array(u.f.times.shape, sl)),
                            !.total = u.total + size,
                            !.slices = Append(u.slices, Taken("times", 0, X, u.total,
                                                              u.total + size, u.total + size))]

\* one turn of the loop over the input definitions without the test of the
\* definition: a fixed input is assigned as many elements as it holds
UnpackInput_Untested(X, t, i) ==
    LET n == IF IsNone(t.f.inputs_def[i]) THEN Len(t.f.inputs[i]) ELSE Get(t.f.inputs_def[i]).n
    IN  [t EXCEPT !.f.inputs[i] = Slice(X, t.total, t.total + n),
                  !.total = t.total + n,
                  !.slices = Append(t.slices, Taken("inputs", i, X, t.total,
                                                    t.total + n, t.total + n))]

\* one turn of the loop over the input definitions, t the course so far
UnpackInput(X, t, i) ==
    IF IsNone(t.f.inputs_def[i]) THEN t
    ELSE LET n == Get(t.f.inputs_def[i]).n
         IN  [t EXCEPT !.f.inputs[i] = Slice(X, t.total, t.total + n),
                       !.total = t.total + n,
                       !.slices = Append(t.slices, Taken("inputs", i, X, t.total,
                                                         t.total + n, t.total + n))]

RECURSIVE UnpackInputs(_, _, _)
UnpackInputs(X, u, i) ==
    IF i = 0 THEN u ELSE UnpackInput(X, UnpackInputs(X, u, i - 1), i)

\* lines 262-282 of __scipy_optimizer_function: the design after the
\* assignments, whether reshape raised, and the assignments made
Unpack(X, f) ==
    LET u == UnpackTimes(X, UnpackX0(X, UnpackT0(X,
                 [f |-> f, total |-> 0, raised |-> FALSE, slices |-> <<>>])))
    IN  IF u.raised THEN u ELSE UnpackInputs(X, u, Len(f.inputs_def))

\* ------------------------------------------------------------------ state
VARIABLES
    fsmp,   \* the FisherModelParametrized the run works on
    op,     \* the operation that ran last
    call,   \* the arguments and the course of the last objective evaluation
    ret,    \* what the last operation returned
    run     \* the optimization run of an entry point, None outside one
vars == <<fsmp, op, call, ret, run>>

\* number of flat-vector elements of the optimizable groups
GroupSizes(f) ==
    <<IF IsNone(f.ode_t0_def) THEN 0 ELSE Get(f.ode_t0_def).n,
      IF IsNone(f.ode_x0_def) THEN 0 ELSE Get(f.ode_x0_def).n,
      IF IsNone(f.times_def) THEN 0 ELSE Size(f.times)>>
    \o [i \in 1..Len(f.inputs_def) |->
          IF IsNone(f.inputs_def[i]) THEN 0 ELSE Get(f.inputs_def[i]).n]

FlatLen(f) == IntSum(GroupSizes(f))

\* the values a freshly parametrized group starts from, as offsets from its
\* lower bound
Ramp(n) == [i \in 1..n |-> Min2(i - 1, 1)]

\* the values vs placed at the lower bound of an optimizable group; those of
\* a fixed group as they are
Placed(def, vs) == IF IsNone(def) THEN vs ELSE [i \in 1..Len(vs) |-> Get(def).lb + vs[i]]

\* A parametrized design whose value arrays have the shapes their
\* definitions ask for: t0d, x0d, td are the (optional) definitions, nt the
\* number of sampling times per input combination, ind the (optional) input
\* definitions and inl the number of values of each input.
Parametrized(t0d, x0d, td, nt, identical_times, ind, inl) ==
    [ode_t0_def |-> t0d,
     ode_t0 |-> IF IsNone(t0d) THEN <<0>> ELSE Placed(t0d, Ramp(Get(t0d).n)),
     ode_x0_def |-> x0d,
     ode_x0 |-> IF IsNone(x0d) THEN <<1>> ELSE Placed(x0d, Repeat(1, Get(x0d).n)),
     times_def |-> td,
     times |-> LET shape == IF identical_times THEN <<nt>> ELSE inl \o <<nt>>
               IN  Array(shape, Placed(td, Concat(Repeat(Ramp(nt),
                                                         IntProd(shape) \div Max2(1, nt))))),
     inputs_def |-> ind,
     inputs |-> [i \in 1..Len(inl) |-> Placed(ind[i], Ramp(inl[i]))],
     identical_times |-> identical_times]

\* optional definitions with the counts ns, the bounds lbs and ubs, the
\* minimum distances mds and the grids grids
OptionalDefs(ns, lbs, ubs, mds, grids) ==
    {None} \cup {Some(VariableDefinition(n, lb, ub, md, g)) :
                    n \in ns, lb \in lbs, ub \in ubs, md \in mds, g \in grids}

\* the (definition, number of values) pairs a group can be built with: a
\* fixed group holds one value, an optimizable one as many as its count
Shaped(defs) == {<<d, IF IsNone(d) THEN 1 ELSE Get(d).n>> : d \in defs}

\* fsmp is a design over the given definitions with one or two input
\* channels and at most maxlen flat-vector elements
IsDesign(f, t0ds, x0ds, tds, inds, maxlen) ==
    \E t0d \in t0ds, x0d \in x0ds, t \in Shaped(tds), id \in BOOLEAN, k \in 1..2 :
        \E in \in [1..k -> Shaped(inds)] :
            LET g == Parametrized(t0d, x0d, t[1], t[2], id,
                                  [i \in 1..k |-> in[i][1]], [i \in 1..k |-> in[i][2]])
            IN  FlatLen(g) <= maxlen /\ f = g

\* the outcomes of the external calculate_fisher_criterion
EvaluatorOutcomes(criteria) ==
    {[raises |-> TRUE, criterion |-> 0]} \cup {[raises |-> FALSE, criterion |-> c] : c \in criteria}

\* the flat vectors over vs of the lengths ls
Vectors(vs, ls) == UNION {[1..l -> vs] : l \in ls}

\* -------------------------------------------------------------- operations
\* Each operation is applied to the design as parametrized.
BoundsConstraints ==
    /\ op = "init"
    /\ op' = "bounds"
    /\ ret' = Some(_scipy_calculate_bounds_constraints(fsmp))
    /\ UNCHANGED <<fsmp, call, run>>

InitialGuess ==
    /\ op = "init"
    /\ op' = "guess"
    /\ ret' = Some(__initial_guess(fsmp))
    /\ UNCHANGED <<fsmp, call, run>>

\* how an evaluation ends once X is unpacked (u): reshape raised, the
\* external evaluator raised, or the function returned
Outcome(u, ev) ==
    IF u.raised THEN "reshape" ELSE IF ev.raises THEN "evaluator" ELSE "returned"

\* the arguments and the course of an evaluation
Course(X, full, discrete_penalizer, ev, u) ==
    [X |-> X, full |-> full, discrete_penalizer |-> discrete_penalizer,
     slices |-> u.slices, total |-> u.total, outcome |-> Outcome(u, ev),
     criterion |-> IF Outcome(u, ev) = "returned" THEN ev.criterion ELSE 0]

\* the return statements with the sign of the criterion kept
Result_SignKept(full, fsr) ==
    IF full THEN fsr ELSE Mul(fsr.criterion, fsr.penalty_discrete_summary.penalty)

\* the return statements: the result object with the penalty attached, or
\* -fsr.criterion * penalty
Result(full, fsr) ==
    IF full THEN fsr ELSE Mul(Neg(fsr.criterion), fsr.penalty_discrete_summary.penalty)

\* __scipy_optimizer_function(X, fsmp, full, discrete_penalizer); ev is what
\* the external evaluator does when it is reached
__scipy_optimizer_function(X, full, discrete_penalizer, ev) ==
    LET u == Unpack(X, fsmp)
    IN  /\ fsmp' = u.f
        /\ op' = "evaluate"
        /\ call' = Some(Course(X, full, discrete_penalizer, ev, u))
        /\ ret' = IF Outcome(u, ev) # "returned" THEN None
                  ELSE Some(Result(full, [criterion |-> Exact(ev.criterion),
                                          penalty_discrete_summary |->
                                              _discrete_penalizer(u.f, discrete_penalizer)]))

\* An objective evaluation on the design as parametrized, at any vector of
\* xs, called in any way of hows = (full, discrete_penalizer, ev).
Evaluate(xs, hows) ==
    /\ op = "init"
    /\ \E X \in xs, h \in hows : __scipy_optimizer_function(X, h[1], h[2], h[3])
    /\ UNCHANGED run

\* ------------------------------------------------- the codec specification
\* Designs of every combination of fixed and optimizable groups, no grids;
\* vectors one shorter than, as long as and one longer than the flat vector.
PlainDefs == OptionalDefs(0..MaxN, {0}, {1}, {None}, {None})
PlainInputDefs == OptionalDefs(1..MaxN, {0}, {1}, {None}, {None})

CodecCalls == BOOLEAN \X {"default"} \X EvaluatorOutcomes({2})

Init ==
    /\ IsDesign(fsmp, PlainDefs, PlainDefs, PlainDefs, PlainInputDefs, MaxLen)
    /\ op = "init"
    /\ call = None
    /\ ret = None
    /\ run = None

Next ==
    \/ InitialGuess
    \/ BoundsConstraints
    \/ Evaluate(Vectors(Vals, (FlatLen(fsmp) - 1)..(FlatLen(fsmp) + 1)), CodecCalls)

Spec == Init /\ [][Next]_vars

\* ------------------------------------------ the constraints specification
\* Designs of every combination of fixed and optimizable groups, each kind
\* of group with bounds of its own: initial times, sampling times and inputs
\* with counts from 0, with and without a minimum distance; the initial
\* state with counts from 1.
BoundsDefs(lb) == OptionalDefs(0..MaxCount, {lb}, {lb + 1}, {None, Some(1)}, {None})

BoundsX0Defs == OptionalDefs(1..MaxCount, {2}, {3}, {None}, {None})

BoundsInit ==
    /\ IsDesign(fsmp, BoundsDefs(0), BoundsX0Defs, BoundsDefs(4), BoundsDefs(6), MaxCols)
    /\ op = "init"
    /\ call = None
    /\ ret = None
    /\ run = None

BoundsNext == BoundsConstraints \/ InitialGuess

SpecBounds == BoundsInit /\ [][BoundsNext]_vars

\* ---------------------------------------------- the penalty specification
\* Designs whose optimizable groups are bounded by the value axis and all
\* carry the same grid, any ascending grid on the axis; every vector of the
\* flat length over the axis, every penalty strategy, the full result asked
\* for.
Grids ==
    {g \in UNION {[1..l -> GridVals] : l \in 1..(MaxGrid + 1)} :
        \A i \in 1..(Len(g) - 1) : g[i] < g[i + 1]}

PenaltyDefs(grid) == OptionalDefs(1..MaxN, {0}, {MaxGrid}, {None}, {Some(grid)})

PenaltyCalls == {TRUE} \X PenaltyNames \X EvaluatorOutcomes({3})

PenaltyInit ==
    /\ \E grid \in Grids :
          IsDesign(fsmp, PenaltyDefs(grid), {None}, PenaltyDefs(grid), PenaltyDefs(grid), MaxN)
    /\ op = "init"
    /\ call = None
    /\ ret = None
    /\ run = None

PenaltyNext == Evaluate(Vectors(GridVals, {FlatLen(fsmp)}), PenaltyCalls)

SpecPenalty == PenaltyInit /\ [][PenaltyNext]_vars

\* -------------------------------------------- the objective specification
\* Designs of every combination of fixed and optimizable groups, each
\* optimizable group with or without the two-point grid of the ends of the
\* value axis; vectors of the flat length holding grid points and points off
\* the grid; the default strategy, with and without the full result.
ObjectiveDefs == OptionalDefs(1..MaxN, {0}, {MaxGrid}, {None}, {None, Some(<<0, MaxGrid>>)})
ObjectiveX0Defs == OptionalDefs({1}, {0}, {MaxGrid}, {None}, {None})

ObjectiveCalls ==
    BOOLEAN \X {"default"} \X {ev \in EvaluatorOutcomes({3}) : ~ev.raises}

ObjectiveInit ==
    /\ IsDesign(fsmp, ObjectiveDefs, ObjectiveX0Defs, ObjectiveDefs, ObjectiveDefs, MaxLen)
    /\ op = "init"
    /\ call = None
    /\ ret = None
    /\ run = None

ObjectiveNext == Evaluate(Vectors(Vals, {FlatLen(fsmp)}), ObjectiveCalls)

SpecObjective == ObjectiveInit /\ [][ObjectiveNext]_vars

\* ------------------------------------------------------- the entry points
\* The three entry points build bounds, constraints and (but for brute) the
\* initial guess, hand the objective to the external search, and evaluate
\* the point the search reports once more for the full result.
Backends == {"differential_evolution", "brute", "basinhopping"}

\* the keys of opt_args as each entry point writes them
OptArgs(b) ==
    IF b = "differential_evolution"
    THEN {"func", "bounds", "args", "disp", "polish", "updating", "workers", "x0"}
    ELSE IF b = "brute"
         THEN {"func", "ranges", "args", "Ns", "full_output", "finish", "disp", "workers"}
         ELSE {"func", "x0", "minimizer_kwargs", "disp"}

\* optim_func.__code__.co_varnames: the names the external optimizer is
\* called with by the entry point are among its variable names
co_varnames(b) == OptArgs(b)

\* the key of opt_args that carries the argument tuple of the objective
ObjectiveArgs(b) == IF b = "basinhopping" THEN "minimizer_kwargs" ELSE "args"

\* kwargs without pop: the keys moved to optim_args stay in kwargs
__update_arguments_Unpopped(optim_func, optim_args, kwargs) ==
    LET intersect == co_varnames(optim_func) \cap kwargs
    IN  [optim_args |-> [k \in (DOMAIN optim_args) \cup intersect |->
                            IF k \in intersect THEN "caller" ELSE optim_args[k]],
         kwargs |-> kwargs]

\* optim_args maps each key to whose value it holds; kwargs is the set of
\* keys of the caller's dictionary, the popped keys leaving it
__update_arguments(optim_func, optim_args, kwargs) ==
    LET intersect == co_varnames(optim_func) \cap kwargs
    IN  [optim_args |-> [k \in (DOMAIN optim_args) \cup intersect |->
                            IF k \in intersect THEN "caller" ELSE optim_args[k]],
         kwargs |-> kwargs \ intersect]

\* an entry point up to the call of the external search
Entered(b, discrete_penalizer, kwargs, x0) ==
    LET cs == _scipy_calculate_bounds_constraints(fsmp)
        upd == __update_arguments(b, [k \in OptArgs(b) |-> "own"], kwargs)
    IN  /\ op = "init"
        /\ IsNone(run)
        /\ run' = Some([backend |-> b,
                        discrete_penalizer |-> discrete_penalizer,
                        caller |-> kwargs,
                        fsmp0 |-> fsmp,
                        bounds |-> cs.bounds,
                        x0 |-> x0,
                        opt_args |-> upd.optim_args,
                        kwargs |-> upd.kwargs,
                        phase |-> "searching",
                        res |-> None,
                        trace |-> <<[e |-> "bounds"]>>])
        /\ op' = "search"
        /\ UNCHANGED <<fsmp, call, ret>>

__scipy_differential_evolution(discrete_penalizers, keys) ==
    \E dp \in discrete_penalizers, kwargs \in SUBSET keys :
        Entered("differential_evolution", dp, kwargs, Some(__initial_guess(fsmp)))

__scipy_brute(discrete_penalizers, keys) ==
    \E dp \in discrete_penalizers, kwargs \in SUBSET keys :
        Entered("brute", dp, kwargs, None)

__scipy_basinhopping(discrete_penalizers, keys) ==
    \E dp \in discrete_penalizers, kwargs \in SUBSET keys :
        Entered("basinhopping", dp, kwargs, Some(__initial_guess(fsmp)))

\* the argument tuples a caller can put in place of the entry point's
CallerArgs(r) ==
    {[full |-> full, discrete_penalizer |-> r.discrete_penalizer, kwargs_dict |-> {}] :
        full \in BOOLEAN}

\* the search asking for the full result
SearchArgs_Full(r) ==
    IF r.opt_args[ObjectiveArgs(r.backend)] = "own"
    THEN {[full |-> TRUE, discrete_penalizer |-> r.discrete_penalizer,
           kwargs_dict |-> r.kwargs]}
    ELSE CallerArgs(r)

\* the arguments the search calls the objective with: the tuple
\* (fsmp, False, discrete_penalizer, kwargs) of the entry point, kwargs being
\* the caller's dictionary itself and not a copy, unless the caller's
\* keywords replaced it
SearchArgs(r) ==
    IF r.opt_args[ObjectiveArgs(r.backend)] = "own"
    THEN {[full |-> FALSE, discrete_penalizer |-> r.discrete_penalizer,
           kwargs_dict |-> r.kwargs]}
    ELSE CallerArgs(r)

\* the number of variables of the search: one per pair of bounds, for
\* basinhopping one per element of x0
Dimension(r) == IF r.backend = "basinhopping" THEN Len(Get(r.x0)) ELSE Len(r.bounds)

\* the points the search tries and reports
SearchPoints(n) == {[i \in 1..n |-> 0], [i \in 1..n |-> i % 2]}

\* the record of an evaluation in the trace of the run
Evaluation(a) == [e |-> "evaluation", full |-> a.full, kwargs_dict |-> a.kwargs_dict]

Evaluations(r) == Len(SelectSeq(r.trace, LAMBDA t : t.e = "evaluation"))

\* the search calls the objective; what the objective raises ends the entry
\* point
SearchEvaluation(evs) ==
    /\ ~IsNone(run)
    /\ Get(run).phase = "searching"
    /\ Evaluations(Get(run)) < MaxEvals
    /\ \E X \in SearchPoints(Dimension(Get(run))), a \in SearchArgs(Get(run)), ev \in evs :
          /\ __scipy_optimizer_function(X, a.full, a.discrete_penalizer, ev)
          /\ run' = Some([Get(run) EXCEPT
                            !.trace = Append(@, Evaluation(a)),
                            !.phase = IF Outcome(Unpack(X, fsmp), ev) = "returned"
                                      THEN "searching" ELSE "raised"])

\* the search returns res
SearchReturns ==
    /\ ~IsNone(run)
    /\ Get(run).phase = "searching"
    /\ \E X \in SearchPoints(Dimension(Get(run))) :
          run' = Some([Get(run) EXCEPT !.res = Some(X), !.phase = "searched",
                                       !.trace = Append(@, [e |-> "res"])])
    /\ UNCHANGED <<fsmp, op, call, ret>>

\* the call of the objective at res.x with full=True, whose result the
\* entry point returns
FinalArgs(r) == [full |-> TRUE, discrete_penalizer |-> r.discrete_penalizer,
                 kwargs_dict |-> r.kwargs]

FinalEvaluation(evs) ==
    /\ ~IsNone(run)
    /\ Get(run).phase = "searched"
    /\ \E ev \in evs :
          LET a == FinalArgs(Get(run))
              X == Get(Get(run).res)
          IN  /\ __scipy_optimizer_function(X, a.full, a.discrete_penalizer, ev)
              /\ run' = Some([Get(run) EXCEPT
                                !.trace = Append(@, Evaluation(a)),
                                !.phase = IF Outcome(Unpack(X, fsmp), ev) = "returned"
                                          THEN "returned" ELSE "raised"])

\* ------------------------------------------------ the run specification
\* Designs with and without an optimizable initial state and sampling time,
\* one or two inputs; every entry point, called with every set of keywords
\* out of an optimizer option the entry points set, the two keys that carry
\* the objective's arguments, and an option of the evaluator.
Keywords == {"disp", "args", "minimizer_kwargs", "relative_sensitivities"}

RunX0Defs == OptionalDefs({MaxN}, {0}, {1}, {None}, {None})
RunTimesDefs == OptionalDefs({1}, {0}, {1}, {None}, {None})

RunInit ==
    /\ IsDesign(fsmp, {None}, RunX0Defs, RunTimesDefs, PlainInputDefs, MaxCols)
    /\ op = "init"
    /\ call = None
    /\ ret = None
    /\ run = None

RunNext ==
    \/ __scipy_differential_evolution({"default"}, Keywords)
    \/ __scipy_brute({"default"}, Keywords)
    \/ __scipy_basinhopping({"default"}, Keywords)
    \/ SearchEvaluation(EvaluatorOutcomes({3}))
    \/ SearchReturns
    \/ FinalEvaluation(EvaluatorOutcomes({3}))

SpecRun == RunInit /\ [][RunNext]_vars

\* ------------------------------------------------------------ codec claims
Evaluated == op = "evaluate"
Unpacked == Evaluated /\ Get(call).outcome # "reshape"
Returned == Evaluated /\ Get(call).outcome = "returned"

\* the number of values an optimizable group holds in the flat vector
GroupSize(f, group, i) ==
    IF group = "ode_t0" THEN Get(f.ode_t0_def).n
    ELSE IF group = "ode_x0" THEN Get(f.ode_x0_def).n
    ELSE IF group = "times" THEN Size(f.times)
    ELSE Get(f.inputs_def[i]).n

\* every optimizable group of g holds the values it holds in f, the sampling
\* times up to the ascending order of each sub-array
SameOptimizable(f, g) ==
    /\ ~IsNone(f.ode_t0_def) => g.ode_t0 = f.ode_t0
    /\ ~IsNone(f.ode_x0_def) => g.ode_x0 = f.ode_x0
    /\ ~IsNone(f.times_def) => g.times = SortLastAxis(f.times)
    /\ \A i \in 1..Len(f.inputs_def) : ~IsNone(f.inputs_def[i]) => g.inputs[i] = f.inputs[i]

\* C1: unpacking the vector packed from a design (the initial guess) leaves
\* every optimizable group with its values, the sampling times up to the
\* ascending order of each sub-array.
C1_RoundTrip ==
    [][(op' = "evaluate" /\ Get(call').X = __initial_guess(fsmp) /\ Get(call').outcome # "reshape")
         => SameOptimizable(fsmp, fsmp')]_vars

\* C2: unpacking a vector of the flat length hands every element to exactly
\* one optimizable group: the groups' slices follow each other from 0 to the
\* end of the vector, each as long as its group, and the running offset after
\* a group is the number of elements handed out so far.
C2_DisjointConsecutiveSlices ==
    (Unpacked /\ Len(Get(call).X) = FlatLen(fsmp)) =>
        LET sl == Get(call).slices
        IN  /\ \A j \in 1..Len(sl) :
                /\ sl[j].from = (IF j = 1 THEN 0 ELSE sl[j - 1].to)
                /\ sl[j].to - sl[j].from = GroupSize(fsmp, sl[j].group, sl[j].i)
                /\ sl[j].total = sl[j].to
            /\ (IF sl = <<>> THEN 0 ELSE sl[Len(sl)].to) = Len(Get(call).X)

\* C3: an evaluation of a vector that is shorter or longer than the flat
\* vector ends in an error; it returns neither a value nor a result object.
C3_LengthMismatchRaises ==
    (Evaluated /\ Len(Get(call).X) # FlatLen(fsmp)) =>
        (Get(call).outcome # "returned" /\ IsNone(ret))

\* ------------------------------------------------------ constraint claims
Built == op = "bounds"

\* the optimizable groups in the order of the flat vector: kind, definition
\* and number of flat-vector elements
Groups(f) ==
    (IF IsNone(f.ode_t0_def) THEN <<>>
     ELSE <<[kind |-> "ode_t0", def |-> Get(f.ode_t0_def), size |-> Get(f.ode_t0_def).n]>>)
    \o (IF IsNone(f.ode_x0_def) THEN <<>>
        ELSE <<[kind |-> "ode_x0", def |-> Get(f.ode_x0_def), size |-> Get(f.ode_x0_def).n]>>)
    \o (IF IsNone(f.times_def) THEN <<>>
        ELSE <<[kind |-> "times", def |-> Get(f.times_def), size |-> Size(f.times)]>>)
    \o Concat([i \in 1..Len(f.inputs_def) |->
                 IF IsNone(f.inputs_def[i]) THEN <<>>
                 ELSE <<[kind |-> "inputs", def |-> Get(f.inputs_def[i]),
                         size |-> Get(f.inputs_def[i]).n]>>])

\* the first flat-vector position (0-based) of the j-th optimizable group
ColOffset(G, j) == IntSum([k \in 1..(j - 1) |-> G[k].size])

\* the constraint rows of a group of the given size
RowsOf(size) == Max2(0, size - 1)

\* the constraint rows before those of the j-th group, the initial state
\* having none
RowOffset(G, j) ==
    IntSum([k \in 1..(j - 1) |-> IF G[k].kind = "ode_x0" THEN 0 ELSE RowsOf(G[k].size)])

\* C4: the bounds list has one entry per element of every optimizable group,
\* the matrix has max(0, count - 1) rows per optimizable group, and the
\* constraint vectors have one entry per row.
C4_BoundsAndRowCounts ==
    Built =>
        LET cs == Get(ret)
            G == Groups(fsmp)
        IN  /\ Len(cs.bounds) = IntSum([j \in 1..Len(G) |-> G[j].size])
            /\ cs.B.rows = IntSum([j \in 1..Len(G) |-> RowsOf(G[j].size)])
            /\ Len(cs.lc) = cs.B.rows
            /\ Len(cs.uc) = cs.B.rows

\* C5: the matrix has a column per bounds entry and per flat-vector element;
\* the rows of an ordered group hold +1 and -1 at the group's own positions
\* of the flat vector and 0 elsewhere, and the bounds at a group's positions
\* are the group's.
C5_BlocksAlignedWithFlatVector ==
    Built =>
        LET cs == Get(ret)
            G == Groups(fsmp)
            ordered == {j \in 1..Len(G) : G[j].kind # "ode_x0"}
        IN  /\ cs.B.cols = Len(cs.bounds)
            /\ cs.B.cols = FlatLen(fsmp)
            /\ cs.B.rows = IntSum([j \in 1..Len(G) |->
                                     IF j \in ordered THEN RowsOf(G[j].size) ELSE 0])
            /\ \A j \in ordered : \A i \in 1..RowsOf(G[j].size) : \A c \in 1..cs.B.cols :
                  cs.B.at[<<RowOffset(G, j) + i, c>>] =
                      (IF c = ColOffset(G, j) + i THEN 1
                       ELSE IF c = ColOffset(G, j) + i + 1 THEN -1 ELSE 0)
            /\ \A j \in 1..Len(G) : \A i \in 1..G[j].size :
                  cs.bounds[ColOffset(G, j) + i] = <<G[j].def.lb, G[j].def.ub>>

\* the constraint bounds of the rows of the j-th group
RowBounds(cs, G, j) ==
    {<<cs.lc[RowOffset(G, j) + i], cs.uc[RowOffset(G, j) + i]>> : i \in 1..RowsOf(G[j].size)}

ReturnedFull == Returned /\ Get(call).full
\* the PenaltyInformation attached to the returned full result
Summary == Get(ret).penalty_discrete_summary

\* every grid and every value of a gridded optimizable group lies inside
\* the bounds of the group's definition
Inside(def, vs) == \A i \in 1..Len(vs) : Get(def).lb <= vs[i] /\ vs[i] <= Get(def).ub
WithinBounds(f) ==
    /\ HasDiscrete(f.ode_t0_def) =>
          Inside(f.ode_t0_def, f.ode_t0) /\ Inside(f.ode_t0_def, Get(Get(f.ode_t0_def).discrete))
    /\ HasDiscrete(f.times_def) =>
          Inside(f.times_def, f.times.data) /\ Inside(f.times_def, Get(Get(f.times_def).discrete))
    /\ \A i \in 1..Len(f.inputs_def) : HasDiscrete(f.inputs_def[i]) =>
          /\ Inside(f.inputs_def[i], f.inputs[i])
          /\ Inside(f.inputs_def[i], Get(Get(f.inputs_def[i]).discrete))

\* C7: the total penalty of a design whose grids and sampled values lie
\* inside the bounds is a number above 0 and at most 1, for every strategy
\* (an enclosure counts as inside when some point of it is).
C7_PenaltyInUnitInterval ==
    (ReturnedFull /\ WithinBounds(fsmp)) =>
        /\ Summary.penalty.k = "fin"
        /\ Summary.penalty.hi > 0
        /\ Summary.penalty.lo <= Prec

\* the (value, grid) pairs of a gridded group
Points(def, vs) ==
    IF HasDiscrete(def) THEN {<<vs[i], Get(Get(def).discrete)>> : i \in 1..Len(vs)} ELSE {}

\* the three groups the engine reports a penalty for: their points and the
\* penalty reported
ReportedGroups(f, r) ==
    {[points |-> Points(f.ode_t0_def, f.ode_t0), pen |-> r.penalty_ode_t0],
     [points |-> UNION {Points(f.inputs_def[i], f.inputs[i]) : i \in 1..Len(f.inputs_def)},
      pen |-> r.penalty_inputs],
     [points |-> Points(f.times_def, f.times.data), pen |-> r.penalty_times]}

OnGrid(p) == \E k \in 1..Len(p[2]) : p[2][k] = p[1]
Midway(p) == \E k \in 1..(Len(p[2]) - 1) : 2 * p[1] = p[2][k] + p[2][k + 1]

\* C8: a group whose values all lie on grid points has penalty exactly 1
\* under individual_zigzag and under default/product_difference; a group
\* with a value midway between two adjacent grid points has penalty exactly
\* 0 under individual_zigzag.
C8_GridPointsAndMidpoints ==
    ReturnedFull =>
        \A g \in ReportedGroups(fsmp, Summary) :
            /\ (/\ Get(call).discrete_penalizer
                        \in {"individual_zigzag", "default", "product_difference"}
                /\ \A p \in g.points : OnGrid(p)) => g.pen = One
            /\ (/\ Get(call).discrete_penalizer = "individual_zigzag"
                /\ \E p \in g.points : Midway(p)) => g.pen = Zero

\* the penalty of one group: that of its values on its grid, 1 for a fixed
\* group and for one without a grid
GroupPenalty(name, def, vs) ==
    IF HasDiscrete(def) THEN DISCRETE_PENALTY_FUNCTIONS(name, vs, Get(Get(def).discrete)).pen
    ELSE One

\* C9: the total penalty is the product of the initial-time penalty, the
\* inputs penalty and the sampling-time penalty; the initial-time penalty is
\* that of its group, the inputs penalty the product over the channels, the
\* sampling-time penalty the product over the sub-arrays (one factor when
\* the times are shared); a fixed or gridless group counts as 1, and no
\* initial-state definition, gridded or not, changes anything.
C9_PenaltyIsProduct ==
    ReturnedFull =>
        LET f == fsmp
            r == Summary
            name == Get(call).discrete_penalizer
            n == LastAxis(f.times)
            rows == Size(f.times) \div n
        IN  /\ r.penalty = Mul(Mul(r.penalty_ode_t0, r.penalty_inputs), r.penalty_times)
            /\ r.penalty_ode_t0 = GroupPenalty(name, f.ode_t0_def, f.ode_t0)
            /\ r.penalty_inputs =
                   NpProduct([i \in 1..Len(f.inputs) |->
                                GroupPenalty(name, f.inputs_def[i], f.inputs[i])])
            /\ r.penalty_times =
                   (IF f.identical_times THEN GroupPenalty(name, f.times_def, f.times.data)
                    ELSE NpProduct([k \in 1..rows |->
                                      GroupPenalty(name, f.times_def, Row(f.times.data, n, k - 1))]))
            /\ \A d \in OptionalDefs({1}, {0}, {MaxGrid}, {None}, {None, Some(<<0, MaxGrid>>)}) :
                   _discrete_penalizer([f EXCEPT !.ode_x0_def = d, !.ode_x0 = <<0>>], name) = r

\* a full result whose inputs penalty and whose sampling-time penalty, taken
\* over two sub-arrays, are both below 1 and the latter above 0
C9_Witness ==
    /\ ReturnedFull
    /\ ~fsmp.identical_times /\ HasDiscrete(fsmp.times_def)
    /\ Size(fsmp.times) \div LastAxis(fsmp.times) >= 2
    /\ Summary.penalty_times.hi < Prec /\ Summary.penalty_times.lo > 0
    /\ Summary.penalty_inputs.hi < Prec
    /\ \E i \in 1..Len(fsmp.inputs_def) : ~HasDiscrete(fsmp.inputs_def[i])

\* ------------------------------------------------------- objective claims
\* the values a group of the design holds
GroupValues(f, group, i) ==
    IF group = "ode_t0" THEN f.ode_t0
    ELSE IF group = "ode_x0" THEN f.ode_x0
    ELSE IF group = "times" THEN f.times.data
    ELSE f.inputs[i]

\* every optimizable group of the design holds the elements of X it was
\* given, the sampling times in ascending order within each sub-array
HoldsVector(f, c) ==
    \A j \in 1..Len(c.slices) :
        LET s == c.slices[j]
            x == SubSeq(c.X, s.from + 1, s.to)
        IN  GroupValues(f, s.group, s.i) =
                (IF s.group = "times" THEN SortLastAxis(Array(f.times.shape, x)).data ELSE x)

\* C10: a returning evaluation leaves the design holding the vector; without
\* full it returns -(criterion) * (total penalty of that design under the
\* strategy asked for), with full the result object carrying the criterion
\* as the evaluator gave it and the penalty information of that design.
C10_ObjectiveValue ==
    Returned =>
        LET c == Get(call)
            pen == _discrete_penalizer(fsmp, c.discrete_penalizer)
        IN  /\ HoldsVector(fsmp, c)
            /\ ~c.full => ret = Some(Mul(Neg(Exact(c.criterion)), pen.penalty))
            /\ c.full => /\ Get(ret).criterion = Exact(c.criterion)
                         /\ Get(ret).penalty_discrete_summary = pen

\* a scalar returned for a vector that puts sampling times out of order and
\* a gridded group off its grid: a negative value above -(criterion)
C10_Witness ==
    /\ Returned /\ ~Get(call).full
    /\ HasDiscrete(fsmp.times_def)
    /\ fsmp.times.data # Get(call).X
    /\ Len(fsmp.times.data) = Len(Get(call).X)
    /\ Get(ret).k = "fin" /\ Get(ret).hi < 0 /\ Get(ret).lo > -(Prec * Get(call).criterion)

\* ------------------------------------------------------- unpacking claims
\* every sub-array along the last axis is in ascending order
Ascending(a) ==
    \A i \in 1..(Size(a) - 1) :
        (i % LastAxis(a) # 0) => a.data[i] <= a.data[i + 1]

\* C14: an evaluation that unpacks its vector leaves every sub-array of
\* optimizable sampling times in ascending order along the last axis, whatever
\* the order of the elements in the vector, and leaves the shape of the array
\* as it was.
C14_TimesSorted ==
    [][(op' = "evaluate" /\ Get(call').outcome # "reshape")
         => /\ ~IsNone(fsmp'.times_def) => Ascending(fsmp'.times)
            /\ fsmp'.times.shape = fsmp.times.shape]_vars

\* optimizable sampling times given elements in descending order
C14_Witness ==
    /\ Unpacked
    /\ ~IsNone(fsmp.times_def)
    /\ \E j \in 1..Len(Get(call).slices) :
          LET s == Get(call).slices[j]
          IN  /\ s.group = "times"
              /\ s.to - s.from >= 2
              /\ Get(call).X[s.from + 1] > Get(call).X[s.from + 2]

\* the groups of a design whose definition is None
FixedGroups(f) ==
    {<<g, 0>> : g \in {g \in {"ode_t0", "ode_x0", "times"} :
                          \/ g = "ode_t0" /\ IsNone(f.ode_t0_def)
                          \/ g = "ode_x0" /\ IsNone(f.ode_x0_def)
                          \/ g = "times" /\ IsNone(f.times_def)}}
    \cup {<<"inputs", i>> : i \in {i \in 1..Len(f.inputs_def) : IsNone(f.inputs_def[i])}}

\* C15: an evaluation, however it ends, leaves the values of every fixed
\* group as they were and assigns no slice of the vector to a fixed group;
\* the definitions stay as they were.
C15_FixedGroupsUntouched ==
    [][op' = "evaluate" =>
         /\ FixedGroups(fsmp') = FixedGroups(fsmp)
         /\ \A g \in FixedGroups(fsmp) :
               /\ (IF g[1] = "times" THEN fsmp'.times = fsmp.times
                   ELSE GroupValues(fsmp', g[1], g[2]) = GroupValues(fsmp, g[1], g[2]))
               /\ \A j \in 1..Len(Get(call').slices) :
                     <<Get(call').slices[j].group, Get(call').slices[j].i>> # g]_vars

\* a returning evaluation of a design with a fixed input between the
\* optimizable initial times and an optimizable input, the vector differing
\* from the fixed input's values
C15_Witness ==
    /\ Returned
    /\ ~IsNone(fsmp.ode_t0_def) /\ Get(fsmp.ode_t0_def).n >= 1
    /\ Len(fsmp.inputs_def) = 2
    /\ IsNone(fsmp.inputs_def[1])
    /\ ~IsNone(fsmp.inputs_def[2])
    /\ Len(Get(call).slices) = 2
    /\ \A k \in 1..Len(Get(call).X) : Get(call).X[k] # fsmp.inputs[1][1]

\* the number of values of vs within [min(grid), max(grid)]
InRange(vs, grid) ==
    Cardinality({i \in 1..Len(vs) : SeqMin(grid) <= vs[i] /\ vs[i] <= SeqMax(grid)})

\* the (values, grid, per-value details) of every group the engine reports
\* details of: the initial times, each gridded input, and the sampling times
\* as a whole when they are shared, else each of their sub-arrays
Details(f, r) ==
    (IF HasDiscrete(f.ode_t0_def)
     THEN {[vals |-> f.ode_t0, grid |-> Get(Get(f.ode_t0_def).discrete),
            detail |-> r.penalty_summary.ode_t0]}
     ELSE {})
    \cup (IF HasDiscrete(f.times_def)
          THEN IF f.identical_times
               THEN {[vals |-> f.times.data, grid |-> Get(Get(f.times_def).discrete),
                      detail |-> r.penalty_summary.times]}
               ELSE {[vals |-> Row(f.times.data, LastAxis(f.times), k - 1),
                      grid |-> Get(Get(f.times_def).discrete),
                      detail |-> r.penalty_summary.times[k]] :
                        k \in 1..Len(r.penalty_summary.times)}
          ELSE {})
    \cup {[vals |-> f.inputs[i], grid |-> Get(Get(f.inputs_def[i]).discrete),
           detail |-> r.penalty_summary.inputs[
                          Cardinality({k \in 1..i : HasDiscrete(f.inputs_def[k])})]] :
             i \in {i \in 1..Len(f.inputs_def) : HasDiscrete(f.inputs_def[i])}}

\* C16: under an interval-based strategy the details of a group with a grid
\* of two or more points hold exactly one factor per value within
\* [min(grid), max(grid)] and none for a value outside.
C16_OneFactorPerValueInRange ==
    (ReturnedFull /\ Get(call).discrete_penalizer
                        \in {"individual_zigzag", "individual_cos", "individual_gauss"}) =>
        \A g \in Details(fsmp, Summary) :
            Len(g.grid) >= 2 => Len(g.detail) = InRange(g.vals, g.grid)

\* ------------------------------------------------- the linear constraint
\* row r of B.dot(X)
Dot(B, r, X) == IntSum([c \in 1..B.cols |-> B.at[<<r, c>>] * X[c]])

\* lo <= v <= hi for an integer v and constraint bounds that are exact or
\* infinite
Between(lo, v, hi) ==
    /\ IF lo.k = "inf" THEN lo.lo < 0 ELSE lo.hi <= v * Prec
    /\ IF hi.k = "inf" THEN hi.lo > 0 ELSE v * Prec <= hi.lo

\* lc <= B.dot(X) <= uc, the product being defined only for a vector with
\* one element per column
Satisfies(cs, X) ==
    /\ Len(X) = cs.B.cols
    /\ \A r \in 1..cs.B.rows : Between(cs.lc[r], Dot(cs.B, r, X), cs.uc[r])

\* consecutive values of vs are ascending with a gap of d or more
Spaced(vs, d) == \A i \in 1..(Len(vs) - 1) : vs[i] + d <= vs[i + 1]

\* the sub-arrays of the j-th optimizable group within the flat vector X:
\* one per input combination for the sampling times, else the group itself
SubArrays(f, G, j, X) ==
    LET seg == Slice(X, ColOffset(G, j), ColOffset(G, j) + G[j].size)
    IN  IF G[j].kind = "times"
        THEN {Row(seg, LastAxis(f.times), k) :
                k \in 0..((G[j].size \div Max2(1, LastAxis(f.times))) - 1)}
        ELSE {seg}

\* every sub-array of every ordered group with a minimum distance is spaced
\* by it
GroupsSpaced(f, X) ==
    LET G == Groups(f)
    IN  \A j \in 1..Len(G) :
            (G[j].kind # "ode_x0" /\ ~IsNone(G[j].def.min_distance)) =>
                \A vs \in SubArrays(f, G, j, X) : Spaced(vs, Get(G[j].def.min_distance))

\* every optimizable group of the design has a minimum distance
AllDistanced(f) ==
    \A j \in 1..Len(Groups(f)) : ~IsNone(Groups(f)[j].def.min_distance)

\* C17: for a design without an optimizable initial state whose optimizable
\* groups all have a minimum distance, a flat vector
\* satisfies lc <= B.dot(X) <= uc exactly if inside every ordered group with
\* a minimum distance d (initial times, each input, each sub-array of the
\* sampling times on its own) consecutive values are ascending with a gap of
\* d or more.
C17_ConstraintIsSpacing ==
    (Built /\ IsNone(fsmp.ode_x0_def) /\ AllDistanced(fsmp)) =>
        \A X \in Vectors(Vals, {FlatLen(fsmp)}) :
            Satisfies(Get(ret), X) <=> GroupsSpaced(fsmp, X)

\* ------------------------------------------------------------ run claims
\* the run of an entry point, once entered
Running == ~IsNone(run)

\* the objective's arguments are those the entry point wrote
OwnArgs(r) == r.opt_args[ObjectiveArgs(r.backend)] = "own"

\* the positions of the trace that hold evaluations
EvaluationsAt(t) == {i \in 1..Len(t) : t[i].e = "evaluation"}

\* the order of a run: bounds and constraints are built once and first,
\* every evaluation before the search returns has full=False, at most one
\* evaluation follows the return of the search and has full=True, and the
\* run returns the result of that evaluation, made at the point the search
\* reported
InOrder(r) ==
    LET t == r.trace
        returns == {i \in 1..Len(t) : t[i].e = "res"}
    IN  /\ {i \in 1..Len(t) : t[i].e = "bounds"} = {1}
        /\ Cardinality(returns) <= 1
        /\ \A i \in EvaluationsAt(t) : t[i].full <=> \E j \in returns : j < i
        /\ Cardinality({i \in EvaluationsAt(t) : \E j \in returns : j < i}) <= 1
        /\ r.phase = "returned" =>
              /\ t[Len(t)].e = "evaluation" /\ t[Len(t)].full
              /\ Get(call).full /\ Get(call).X = Get(r.res)
              /\ ret = Some(Result(TRUE, [criterion |-> Exact(Get(call).criterion),
                                          penalty_discrete_summary |->
                                              _discrete_penalizer(fsmp, r.discrete_penalizer)]))

Partitioned(r) ==
    LET forwarded == {k \in DOMAIN r.opt_args : r.opt_args[k] = "caller"}
    IN  /\ forwarded \cup r.kwargs = r.caller
        /\ forwarded \cap r.kwargs = {}
        /\ forwarded = r.caller \cap co_varnames(r.backend)

\* every evaluation of the run had the keywords of the final one
SameKeywords(r) ==
    \A i \in EvaluationsAt(r.trace) : r.trace[i].kwargs_dict = FinalArgs(r).kwargs_dict

\* C12 as claimed: in every run the caller's keywords are partitioned and
\* every evaluation of the search gets the keywords the final one gets.
C12_KeywordsPartitioned ==
    Running => (Partitioned(Get(run)) /\ SameKeywords(Get(run)))

\* C12 as amended: in every run the caller's keywords are partitioned, and
\* unless the caller replaced the objective's argument tuple every
\* evaluation of the search gets the keywords the final one gets.
C12_PartitionedOwnArgsSameKeywords ==
    Running => /\ Partitioned(Get(run))
               /\ OwnArgs(Get(run)) => SameKeywords(Get(run))

\* a returned run with a search evaluation, called with a keyword of the
\* optimizer and one of the evaluator
C12_Witness ==
    /\ Running
    /\ Get(run).phase = "returned"
    /\ Get(run).caller = {"disp", "relative_sensitivities"}
    /\ Get(run).kwargs = {"relative_sensitivities"}
    /\ Cardinality(EvaluationsAt(Get(run).trace)) = 2

\* the optimizable groups of g hold what they hold in f
SameWritten(f, g) ==
    /\ ~IsNone(f.ode_t0_def) => g.ode_t0 = f.ode_t0
    /\ ~IsNone(f.ode_x0_def) => g.ode_x0 = f.ode_x0
    /\ ~IsNone(f.times_def) => g.times = f.times
    /\ \A i \in 1..Len(f.inputs_def) : ~IsNone(f.inputs_def[i]) => g.inputs[i] = f.inputs[i]

\* C13: after an evaluation of X within a run, whatever was evaluated
\* before, the optimizable groups of the design hold what they hold after
\* evaluating X on the design as the entry point received it.
C13_EvaluationForgetsHistory ==
    (Running /\ Evaluated) =>
        SameWritten(Unpack(Get(call).X, Get(run).fsmp0).f, fsmp)

====
